---- MODULE Spec2Model ----
(***************************************************************************)
(* The Notion API client: a facade (NotionApi) over one of two transport   *)
(* backends, the general one built on reqwest (backend/reqwest_impl.rs)    *)
(* and the WASI one built on http_req (backend/http_req_impl.rs).  The     *)
(* backend is fixed when the crate is compiled (cfg(target_os = "wasi")).  *)
(*                                                                         *)
(* A call runs in three steps: the caller builds the request and hands it  *)
(* to the network (StartFacade / StartTransport), the remote side answers  *)
(* (Deliver), and the caller's continuation turns the answer into the      *)
(* call's result (Receive).  Return gives the result back to the caller.   *)
(***************************************************************************)
EXTENDS Integers, Sequences, FiniteSets, TLC

\* ------------------------------------------------------------------------
\* Bounds and sample inputs
\* ------------------------------------------------------------------------

\* Number of call sites sharing one client in ConcSpec.
NumCallers == 2

\* Longest "results" array of a list envelope the remote side sends.
MaxItems == 2

Callers == 1..NumCallers

\* The call site of the sequential specification Spec.
MainCaller == CHOOSE c \in Callers : \A d \in Callers : c <= d

Backends == {"reqwest", "http_req"}

\* Tokens given to NotionApi::new; the last one holds a line feed, which no
\* HTTP header value may contain.
Tokens == {"secret_A", "secret_B", "bad\ntoken"}

\* Identifiers (as_id()) and serialized request bodies (of different lengths).
Ids == {"25169f06", "9a3b0c11"}

Bodies == {"{}", "{\"query\":\"x\"}"}

\* URI strings handed directly to the transport: one well formed, one that
\* neither URL parser accepts (no scheme).
Uris == {"https://api.notion.com/v1/users", "not a uri"}

MalformedUris == {"not a uri"}

NOTION_API_VERSION == "2022-02-22"

\* ------------------------------------------------------------------------
\* Values
\* ------------------------------------------------------------------------

NoObject == [object |-> "none"]

Ok(v) == [ok |-> TRUE, kind |-> "Ok", payload |-> v]

Err(k, p) == [ok |-> FALSE, kind |-> k, payload |-> p]

\* The error a library call failed with (the `source` field of an Error).
Source(stage) == [object |-> "source", stage |-> stage]

NoResult == [ok |-> FALSE, kind |-> "none", payload |-> NoObject]

NoBody == [some |-> FALSE, bytes |-> ""]

SomeBody(b) == [some |-> TRUE, bytes |-> b]

EmptyHeaders == [n \in {} |-> ""]

NoRequest == [method |-> "none", url |-> "", headers |-> EmptyHeaders, body |-> NoBody]

\* The tagged response envelope (models::Object) and the structured error.
ErrorResponses ==
    { [object |-> "error", code |-> "unauthorized", status |-> 401,
       message |-> "API token is invalid."],
      [object |-> "error", code |-> "object_not_found", status |-> 404,
       message |-> "Could not find page."] }

ItemObjects ==
    { [object |-> "page", id |-> "p1"],
      [object |-> "database", id |-> "d1"],
      [object |-> "block", id |-> "b1"],
      [object |-> "list", results |-> << >>],
      [object |-> "error", code |-> "unauthorized", status |-> 401,
       message |-> "API token is invalid."] }

ListObjects ==
    { [object |-> "list", results |-> s] :
        s \in UNION { [1..n -> ItemObjects] : n \in 0..MaxItems } }

Objects == ItemObjects \cup ErrorResponses \cup ListObjects

\* A response body as text: not JSON at all, JSON that is no tagged
\* envelope, or the JSON of an envelope.
NotJson == [json |-> "invalid", object |-> NoObject]

OtherJson == [json |-> "other", object |-> NoObject]

JsonOf(o) == [json |-> "object", object |-> o]

Texts == {NotJson, OtherJson} \cup { JsonOf(o) : o \in Objects }

\* A response body as bytes: the text it encodes and where (if anywhere) it
\* holds bytes that are not UTF-8.
Bytes(t, u) == [doc |-> t, utf8 |-> u]

NoBytes == Bytes([json |-> "none", object |-> NoObject], "ok")

RawBodies ==
    { Bytes(t, "ok") : t \in Texts }
    \cup { Bytes(JsonOf(o), u) :
             o \in ItemObjects \cup ErrorResponses,
             u \in {"bad_in_string", "bad_in_syntax"} }

\* What the network does with a request that was handed to it.
SendError == [kind |-> "send_error", bytes |-> NoBytes]

ReadError == [kind |-> "read_error", bytes |-> NoBytes]

Body(b) == [kind |-> "body", bytes |-> b]

NoReply == [kind |-> "none", bytes |-> NoBytes]

\* http_req's send() reads the whole response itself: a failure while
\* reading is a failure of send().
Outcomes(b) ==
    {SendError} \cup (IF b = "reqwest" THEN {ReadError} ELSE {})
    \cup { Body(r) : r \in RawBodies }

\* ------------------------------------------------------------------------
\* Library behaviour the client code relies on
\* ------------------------------------------------------------------------

\* Header names are case-insensitive in both libraries (HeaderMap, Headers).
HeaderName(n) ==
    CASE n = "Notion-Version" -> "notion-version"
      [] n = "Authorization"  -> "authorization"
      [] n = "Content-Type"   -> "content-type"
      [] n = "Content-Length" -> "content-length"
      [] OTHER -> n

insert(h, n, v) ==
    [x \in DOMAIN h \cup {HeaderName(n)} |->
        IF x = HeaderName(n) THEN v ELSE h[x]]

\* HeaderValue::from_str rejects control characters such as a line feed.
HeaderValue_from_str_ok(v) == v \notin { "Bearer " \o t : t \in {"bad\ntoken"} }

\* Url::parse (reqwest) and Uri::try_from (http_req).
Url_parse_ok(u) == u \notin MalformedUris

Uri_try_from_ok(u) == u \notin MalformedUris

\* String::from_utf8_lossy, and the decoding done by reqwest's text(): every
\* invalid sequence becomes U+FFFD.  Inside a JSON string the document keeps
\* its shape and the string changes; anywhere else the text is no longer
\* JSON.
REPLACEMENT == "<U+FFFD>"

ReplaceInString(o) ==
    CASE o.object \in {"page", "database", "block"} -> [o EXCEPT !.id = REPLACEMENT]
      [] o.object = "error" -> [o EXCEPT !.message = REPLACEMENT]
      [] OTHER -> o

from_utf8_lossy(b) ==
    CASE b.utf8 = "ok" -> b.doc
      [] b.utf8 = "bad_in_string" ->
            IF b.doc.json = "object" THEN JsonOf(ReplaceInString(b.doc.object))
            ELSE b.doc
      [] OTHER -> NotJson

\* serde_json::from_str::<serde_json::Value>: any JSON document parses.
from_str_Value_ok(t) == t.json \in {"other", "object"}

\* serde_json::from_str::<Object>: only the JSON of a tagged envelope parses.
from_str_Object(t) ==
    IF t.json = "object" THEN [ok |-> TRUE, object |-> t.object]
    ELSE [ok |-> FALSE, object |-> NoObject]

\* The {code, status, message} of an error envelope (Object::Error { error }).
ErrorResponseOf(o) == [code |-> o.code, status |-> o.status, message |-> o.message]

\* ------------------------------------------------------------------------
\* Construction
\* ------------------------------------------------------------------------

\* Mutation: the header value is built without being validated.
reqwest_Client_new_unchecked(api_token, build_ok) ==
    LET headers    == insert(EmptyHeaders, "Notion-Version", NOTION_API_VERSION)
        auth_value == "Bearer " \o api_token
    IN  IF ~build_ok
        THEN Err("ErrorBuildingClient", Source("build"))
        ELSE Ok([default_headers |-> insert(headers, "authorization", auth_value)])

reqwest_Client_new(api_token, build_ok) ==
    LET headers    == insert(EmptyHeaders, "Notion-Version", NOTION_API_VERSION)
        auth_value == "Bearer " \o api_token
    IN  IF ~HeaderValue_from_str_ok(auth_value)
        THEN Err("InvalidApiToken", Source("header_value"))
        ELSE IF ~build_ok
        THEN Err("ErrorBuildingClient", Source("build"))
        ELSE Ok([default_headers |-> insert(headers, "authorization", auth_value)])

http_req_Client_new(api_token) == Ok([token |-> api_token])

\* NotionApi::new: Client::new(api_token.into())?, then Ok(Self { client }).
NotionApi_new(b, api_token, build_ok) ==
    IF b = "reqwest" THEN reqwest_Client_new(api_token, build_ok)
    ELSE http_req_Client_new(api_token)

\* ------------------------------------------------------------------------
\* Transport, up to the point where the request is on the wire
\* ------------------------------------------------------------------------

Return_(r) == [status |-> "return", request |-> NoRequest, result |-> r]

Send_(rq) == [status |-> "send", request |-> rq, result |-> NoResult]

Panic_ == [status |-> "panic", request |-> NoRequest, result |-> NoResult]

\* reqwest's RequestBuilder: it keeps a URL parse error until build(), and
\* header() and body() leave a failed builder alone.
RequestBuilder(method, url) ==
    [url_ok |-> Url_parse_ok(url), method |-> method, url |-> url,
     headers |-> EmptyHeaders, body |-> NoBody]

rb_header(rb, n, v) ==
    IF rb.url_ok THEN [rb EXCEPT !.headers = insert(@, n, v)] ELSE rb

rb_body(rb, b) == IF rb.url_ok THEN [rb EXCEPT !.body = SomeBody(b)] ELSE rb

\* execute() adds every default header the request does not set itself.
merge_defaults(defaults, headers) ==
    [x \in DOMAIN defaults \cup DOMAIN headers |->
        IF x \in DOMAIN headers THEN headers[x] ELSE defaults[x]]

\* make_json_request up to execute(): request.build()? turns a failed
\* builder into Error::RequestFailed (#[from] reqwest::Error).
reqwest_make_json_request_send(client, rb) ==
    IF ~rb.url_ok THEN Return_(Err("RequestFailed", Source("build")))
    ELSE Send_([method |-> rb.method, url |-> rb.url,
                headers |-> merge_defaults(client.default_headers, rb.headers),
                body |-> rb.body])

reqwest_get(client, uri) ==
    reqwest_make_json_request_send(client, RequestBuilder("GET", uri))

reqwest_post(client, uri) ==
    reqwest_make_json_request_send(client, RequestBuilder("POST", uri))

reqwest_post_json(client, uri, body) ==
    reqwest_make_json_request_send(client,
        rb_body(rb_header(rb_header(RequestBuilder("POST", uri),
                    "Content-Type", "application/json"),
                    "Content-Length", ToString(Len(body))),
                body))

\* http_req's Request.
Request_new(uri) ==
    [method |-> "GET", url |-> uri, headers |-> EmptyHeaders, body |-> NoBody]

\* Mutation: the version header is left out.
http_req_make_json_request_send_no_version(client, request) ==
    Send_([request EXCEPT !.headers =
             insert(@, "Authorization", "Bearer " \o client.token)])

\* make_json_request up to send(): the two headers are set on every request.
http_req_make_json_request_send(client, request) ==
    Send_([request EXCEPT !.headers =
             insert(insert(@, "Notion-Version", NOTION_API_VERSION),
                    "Authorization", "Bearer " \o client.token)])

\* Uri::try_from(raw.as_str()).unwrap() panics on a string that is no URI.
http_req_get(client, uri) ==
    IF ~Uri_try_from_ok(uri) THEN Panic_
    ELSE http_req_make_json_request_send(client,
            [Request_new(uri) EXCEPT !.method = "GET"])

http_req_post(client, uri) ==
    IF ~Uri_try_from_ok(uri) THEN Panic_
    ELSE http_req_make_json_request_send(client,
            [Request_new(uri) EXCEPT !.method = "POST"])

http_req_post_json(client, uri, body) ==
    IF ~Uri_try_from_ok(uri) THEN Panic_
    ELSE http_req_make_json_request_send(client,
            [Request_new(uri) EXCEPT
                !.method = "POST",
                !.headers = insert(insert(@, "Content-Type", "application/json"),
                                   "Content-Length", ToString(Len(body))),
                !.body = SomeBody(body)])

\* TClient::{get, post, post_json} of the backend the crate was built with.
TClient_start(b, client, op, uri, body) ==
    CASE b = "reqwest" /\ op = "get"       -> reqwest_get(client, uri)
      [] b = "reqwest" /\ op = "post"      -> reqwest_post(client, uri)
      [] b = "reqwest" /\ op = "post_json" -> reqwest_post_json(client, uri, body.bytes)
      [] b = "http_req" /\ op = "get"       -> http_req_get(client, uri)
      [] b = "http_req" /\ op = "post"      -> http_req_post(client, uri)
      [] b = "http_req" /\ op = "post_json" -> http_req_post_json(client, uri, body.bytes)

\* ------------------------------------------------------------------------
\* Transport, from the network's answer to the transport's result
\* ------------------------------------------------------------------------

\* Mutation: a body that does not parse is reported as a read failure.
reqwest_make_json_request_recv_parse_as_io(outcome, test) ==
    IF outcome.kind = "send_error" THEN Err("RequestFailed", Source("execute"))
    ELSE IF outcome.kind = "read_error" THEN Err("ResponseIoError", Source("text"))
    ELSE LET json   == from_utf8_lossy(outcome.bytes)
             result == from_str_Object(json)
         IN  IF test /\ ~from_str_Value_ok(json)
             THEN Err("ResponseIoError", Source("json"))
             ELSE IF ~result.ok THEN Err("ResponseIoError", Source("json"))
             ELSE IF result.object.object = "error"
             THEN Err("ApiError", ErrorResponseOf(result.object))
             ELSE Ok(result.object)

\* `test` is cfg(test): the body is first parsed as a serde_json::Value.
reqwest_make_json_request_recv(outcome, test) ==
    IF outcome.kind = "send_error" THEN Err("RequestFailed", Source("execute"))
    ELSE IF outcome.kind = "read_error" THEN Err("ResponseIoError", Source("text"))
    ELSE LET json   == from_utf8_lossy(outcome.bytes)
             result == from_str_Object(json)
         IN  IF test /\ ~from_str_Value_ok(json)
             THEN Err("JsonParseError", Source("json"))
             ELSE IF ~result.ok THEN Err("JsonParseError", Source("json"))
             ELSE IF result.object.object = "error"
             THEN Err("ApiError", ErrorResponseOf(result.object))
             ELSE Ok(result.object)

\* Mutation: the Error envelope is not singled out.
http_req_make_json_request_recv_no_error_arm(outcome, test) ==
    IF outcome.kind = "send_error" THEN Err("RequestFailed", Source("send"))
    ELSE LET text   == from_utf8_lossy(outcome.bytes)
             result == from_str_Object(text)
         IN  IF test /\ ~from_str_Value_ok(text)
             THEN Err("JsonParseError", Source("json"))
             ELSE IF ~result.ok THEN Err("JsonParseError", Source("json"))
             ELSE Ok(result.object)

http_req_make_json_request_recv(outcome, test) ==
    IF outcome.kind = "send_error" THEN Err("RequestFailed", Source("send"))
    ELSE LET text   == from_utf8_lossy(outcome.bytes)
             result == from_str_Object(text)
         IN  IF test /\ ~from_str_Value_ok(text)
             THEN Err("JsonParseError", Source("json"))
             ELSE IF ~result.ok THEN Err("JsonParseError", Source("json"))
             ELSE IF result.object.object = "error"
             THEN Err("ApiError", ErrorResponseOf(result.object))
             ELSE Ok(result.object)

TClient_finish(b, outcome, test) ==
    IF b = "reqwest" THEN reqwest_make_json_request_recv(outcome, test)
    ELSE http_req_make_json_request_recv(outcome, test)

\* ------------------------------------------------------------------------
\* Facade: the request of each endpoint
\* ------------------------------------------------------------------------

FacadeOps ==
    {"list_databases", "search", "get_database", "get_page", "create_page",
     "query_database", "get_block_children"}

TransportOps == {"get", "post", "post_json"}

NoId == ""

TCall(op, uri, body) == [op |-> op, uri |-> uri, body |-> body]

list_databases_request == TCall("get", "https://api.notion.com/v1/databases", NoBody)

search_request(query) ==
    TCall("post_json", "https://api.notion.com/v1/search", SomeBody(query))

get_database_request(database_id) ==
    TCall("get", "https://api.notion.com/v1/databases/" \o database_id, NoBody)

get_page_request(page_id) ==
    TCall("get", "https://api.notion.com/v1/pages/" \o page_id, NoBody)

create_page_request(page) ==
    TCall("post_json", "https://api.notion.com/v1/pages", SomeBody(page))

\* Mutation: the request goes to the database itself, not to its query.
query_database_request_no_suffix(database_id, query) ==
    TCall("post_json", "https://api.notion.com/v1/databases/" \o database_id,
          SomeBody(query))

query_database_request(database_id, query) ==
    TCall("post_json",
          "https://api.notion.com/v1/databases/" \o database_id \o "/query",
          SomeBody(query))

get_block_children_request(block_id) ==
    TCall("get", "https://api.notion.com/v1/blocks/" \o block_id \o "/children", NoBody)

FacadeRequest(op, id, body) ==
    CASE op = "list_databases"     -> list_databases_request
      [] op = "search"             -> search_request(body.bytes)
      [] op = "get_database"       -> get_database_request(id)
      [] op = "get_page"           -> get_page_request(id)
      [] op = "create_page"        -> create_page_request(body.bytes)
      [] op = "query_database"     -> query_database_request(id, body.bytes)
      [] op = "get_block_children" -> get_block_children_request(id)

\* ------------------------------------------------------------------------
\* Facade: matching the transport's envelope
\* ------------------------------------------------------------------------

\* ListResponse::expect_databases / expect_pages / expect_blocks: every item
\* of the list must be of the one kind; the first that is not is handed
\* back in Error::UnexpectedResponse.
expect_items(list, kind) ==
    LET bad == { i \in 1..Len(list.results) : list.results[i].object # kind }
    IN  IF bad = {} THEN Ok(list)
        ELSE Err("UnexpectedResponse",
                 list.results[CHOOSE i \in bad : \A j \in bad : i <= j])

list_databases_match(response) ==
    IF response.object = "list" THEN expect_items(response, "database")
    ELSE Err("UnexpectedResponse", response)

search_match(response) ==
    IF response.object = "list" THEN Ok(response)
    ELSE Err("UnexpectedResponse", response)

\* Mutation: the variant is not checked.
get_database_match_any(response) == Ok(response)

get_database_match(response) ==
    IF response.object = "database" THEN Ok(response)
    ELSE Err("UnexpectedResponse", response)

get_page_match(response) ==
    IF response.object = "page" THEN Ok(response)
    ELSE Err("UnexpectedResponse", response)

create_page_match(response) ==
    IF response.object = "page" THEN Ok(response)
    ELSE Err("UnexpectedResponse", response)

query_database_match(response) ==
    IF response.object = "list" THEN expect_items(response, "page")
    ELSE Err("UnexpectedResponse", response)

get_block_children_match(response) ==
    IF response.object = "list" THEN expect_items(response, "block")
    ELSE Err("UnexpectedResponse", response)

\* Mutation: a transport error is matched like an envelope.
FacadeMatch_error_matched(op, tr) ==
    IF ~tr.ok THEN Err("UnexpectedResponse", tr.payload)
    ELSE CASE op = "list_databases"     -> list_databases_match(tr.payload)
           [] op = "search"             -> search_match(tr.payload)
           [] op = "get_database"       -> get_database_match(tr.payload)
           [] op = "get_page"           -> get_page_match(tr.payload)
           [] op = "create_page"        -> create_page_match(tr.payload)
           [] op = "query_database"     -> query_database_match(tr.payload)
           [] op = "get_block_children" -> get_block_children_match(tr.payload)

\* `.await?` hands a transport error back as it is; an envelope is matched.
FacadeMatch(op, tr) ==
    IF ~tr.ok THEN tr
    ELSE CASE op = "list_databases"     -> list_databases_match(tr.payload)
           [] op = "search"             -> search_match(tr.payload)
           [] op = "get_database"       -> get_database_match(tr.payload)
           [] op = "get_page"           -> get_page_match(tr.payload)
           [] op = "create_page"        -> create_page_match(tr.payload)
           [] op = "query_database"     -> query_database_match(tr.payload)
           [] op = "get_block_children" -> get_block_children_match(tr.payload)

\* The result of a call: of a facade operation, or of the transport itself.
CallResult(op, tr) == IF op \in FacadeOps THEN FacadeMatch(op, tr) ELSE tr

\* ------------------------------------------------------------------------
\* State
\* ------------------------------------------------------------------------

VARIABLES
    backend,  \* the backend the crate was compiled with
    api,      \* the result of NotionApi::new (NoResult before it is called)
    new_args, \* the arguments NotionApi::new was called with
    pc,       \* per caller: idle, awaiting, replied, done, panicked
    call,     \* per caller: the operation called and its arguments
    sent,     \* per caller: the requests its current call put on the wire
    reply,    \* per caller: the network's answer to its request
    result    \* per caller: the result its call returned

vars == <<backend, api, new_args, pc, call, sent, reply, result>>

NoCall == [op |-> "none", arg |-> "", body |-> NoBody]

NoArgs == [token |-> "", build_ok |-> FALSE]

Init ==
    /\ backend \in Backends
    /\ api = NoResult
    /\ new_args = NoArgs
    /\ pc = [c \in Callers |-> "idle"]
    /\ call = [c \in Callers |-> NoCall]
    /\ sent = [c \in Callers |-> << >>]
    /\ reply = [c \in Callers |-> NoReply]
    /\ result = [c \in Callers |-> NoResult]

\* ------------------------------------------------------------------------
\* Actions
\* ------------------------------------------------------------------------

\* NotionApi::new(api_token); build_ok is whether ClientBuilder::build works.
New(api_token, build_ok) ==
    /\ api = NoResult
    /\ api' = NotionApi_new(backend, api_token, build_ok)
    /\ new_args' = [token |-> api_token, build_ok |-> build_ok]
    /\ UNCHANGED <<backend, pc, call, sent, reply, result>>

\* The part of a call that runs before its first await: either the request
\* goes on the wire, or the call is over (an error result, or a panic).
Begin(c, cr, p) ==
    /\ call' = [call EXCEPT ![c] = cr]
    /\ CASE p.status = "send" ->
              /\ pc' = [pc EXCEPT ![c] = "awaiting"]
              /\ sent' = [sent EXCEPT ![c] = Append(@, p.request)]
              /\ UNCHANGED result
         [] p.status = "return" ->
              /\ pc' = [pc EXCEPT ![c] = "done"]
              /\ result' = [result EXCEPT ![c] = CallResult(cr.op, p.result)]
              /\ UNCHANGED sent
         [] p.status = "panic" ->
              /\ pc' = [pc EXCEPT ![c] = "panicked"]
              /\ UNCHANGED <<sent, result>>
    /\ UNCHANGED <<backend, api, new_args, reply>>

StartFacade(c, op, id, body) ==
    /\ pc[c] = "idle"
    /\ api.ok
    /\ LET rq == FacadeRequest(op, id, body)
       IN  Begin(c, [op |-> op, arg |-> id, body |-> body],
                 TClient_start(backend, api.payload, rq.op, rq.uri, rq.body))

StartTransport(c, op, uri, body) ==
    /\ pc[c] = "idle"
    /\ api.ok
    /\ Begin(c, [op |-> op, arg |-> uri, body |-> body],
             TClient_start(backend, api.payload, op, uri, body))

\* The remote side (or the network) answers the caller's request.
Deliver(c, outcome) ==
    /\ pc[c] = "awaiting"
    /\ reply' = [reply EXCEPT ![c] = outcome]
    /\ pc' = [pc EXCEPT ![c] = "replied"]
    /\ UNCHANGED <<backend, api, new_args, call, sent, result>>

\* Mutation: the answer is read from a buffer all callers share, which holds
\* the answer that arrived for any of them.
response_shared(c) ==
    LET others == { d \in Callers : d # c /\ reply[d].kind # "none" }
    IN  IF others = {} THEN reply[c] ELSE reply[CHOOSE d \in others : TRUE]

\* The answer a call's continuation reads: the response of its own request
\* (a local of make_json_request).
response_of(c) == reply[c]

\* Mutation: a request that failed to send is sent again.
Receive_retry(c) ==
    /\ pc[c] = "replied"
    /\ IF reply[c].kind = "send_error"
       THEN /\ sent' = [sent EXCEPT ![c] = Append(@, sent[c][1])]
            /\ reply' = [reply EXCEPT ![c] = NoReply]
            /\ pc' = [pc EXCEPT ![c] = "awaiting"]
            /\ UNCHANGED result
       ELSE /\ \E test \in BOOLEAN :
                  result' = [result EXCEPT ![c] =
                                CallResult(call[c].op,
                                           TClient_finish(backend, reply[c], test))]
            /\ pc' = [pc EXCEPT ![c] = "done"]
            /\ UNCHANGED <<sent, reply>>
    /\ UNCHANGED <<backend, api, new_args, call>>

\* The rest of the call: make_json_request after the await, then the
\* facade's match.
Receive(c) ==
    /\ pc[c] = "replied"
    /\ \E test \in BOOLEAN :
          result' = [result EXCEPT ![c] =
                        CallResult(call[c].op,
                                   TClient_finish(backend, response_of(c), test))]
    /\ pc' = [pc EXCEPT ![c] = "done"]
    /\ UNCHANGED <<backend, api, new_args, call, sent, reply>>

\* The caller takes the result; it may call again.
Return(c) ==
    /\ pc[c] = "done"
    /\ pc' = [pc EXCEPT ![c] = "idle"]
    /\ call' = [call EXCEPT ![c] = NoCall]
    /\ sent' = [sent EXCEPT ![c] = << >>]
    /\ reply' = [reply EXCEPT ![c] = NoReply]
    /\ result' = [result EXCEPT ![c] = NoResult]
    /\ UNCHANGED <<backend, api, new_args>>

\* ------------------------------------------------------------------------
\* Specifications
\* ------------------------------------------------------------------------

\* The arguments each operation takes.
FacadeArgs(op) ==
    { [id |-> i, body |-> b] :
        i \in (IF op \in {"get_database", "get_page", "query_database",
                          "get_block_children"} THEN Ids ELSE {NoId}),
        b \in (IF op \in {"search", "create_page", "query_database"}
               THEN { SomeBody(x) : x \in Bodies } ELSE {NoBody}) }

TransportBodies(op) ==
    IF op = "post_json" THEN { SomeBody(x) : x \in Bodies } ELSE {NoBody}

\* One call site, every operation, every argument and every answer.
Next ==
    \/ \E t \in Tokens, build_ok \in BOOLEAN : New(t, build_ok)
    \/ \E op \in FacadeOps : \E a \in FacadeArgs(op) :
          StartFacade(MainCaller, op, a.id, a.body)
    \/ \E op \in TransportOps, u \in Uris : \E b \in TransportBodies(op) :
          StartTransport(MainCaller, op, u, b)
    \/ \E o \in Outcomes(backend) : Deliver(MainCaller, o)
    \/ Receive(MainCaller)
    \/ Return(MainCaller)

Spec == Init /\ [][Next]_vars

\* Several call sites sharing the one client, each with a sample of the
\* operations and of the answers.
ConcFacadeOps == {"list_databases", "get_page"}

ConcOutcomes ==
    { SendError,
      Body(Bytes(NotJson, "ok")),
      Body(Bytes(JsonOf([object |-> "page", id |-> "p1"]), "ok")),
      Body(Bytes(JsonOf([object |-> "list",
                         results |-> << [object |-> "database", id |-> "d1"] >>]), "ok")),
      Body(Bytes(JsonOf([object |-> "error", code |-> "unauthorized", status |-> 401,
                         message |-> "API token is invalid."]), "ok")) }

ConcNext ==
    \/ \E t \in Tokens, build_ok \in BOOLEAN : New(t, build_ok)
    \/ \E c \in Callers, op \in ConcFacadeOps : \E a \in FacadeArgs(op) :
          StartFacade(c, op, a.id, a.body)
    \/ \E c \in Callers, u \in Uris : StartTransport(c, "get", u, NoBody)
    \/ \E c \in Callers, o \in ConcOutcomes : Deliver(c, o)
    \/ \E c \in Callers : Receive(c)
    \/ \E c \in Callers : Return(c)

ConcSpec == Init /\ [][ConcNext]_vars

\* ------------------------------------------------------------------------
\* Vocabulary of the properties
\* ------------------------------------------------------------------------

\* The envelope the body of caller c's response parses to, if it does.
Envelope(c) == from_str_Object(from_utf8_lossy(reply[c].bytes))

HasBody(c) == reply[c].kind = "body"

\* The variant each endpoint expects.
ExpectedVariant(op) ==
    CASE op \in {"list_databases", "search", "query_database", "get_block_children"} -> "list"
      [] op = "get_database" -> "database"
      [] op \in {"get_page", "create_page"} -> "page"

\* The transport operation, URL and body of caller c's call.
TCallOf(c) ==
    IF call[c].op \in FacadeOps
    THEN FacadeRequest(call[c].op, call[c].arg, call[c].body)
    ELSE TCall(call[c].op, call[c].arg, call[c].body)

OtherBackend(b) == IF b = "reqwest" THEN "http_req" ELSE "reqwest"

\* ------------------------------------------------------------------------
\* Properties
\* ------------------------------------------------------------------------

\* C1: for every facade operation and every well-formed envelope in the
\* response, a call that returns Ok had the envelope of the variant its
\* endpoint expects, and an envelope of any other variant but Error makes
\* the call return UnexpectedResponse carrying that envelope.
C1_ExpectedVariantOrUnexpected ==
    \A c \in Callers :
        (pc[c] = "done" /\ call[c].op \in FacadeOps) =>
            /\ result[c].ok =>
                  /\ HasBody(c)
                  /\ Envelope(c).ok
                  /\ Envelope(c).object.object = ExpectedVariant(call[c].op)
            /\ (/\ HasBody(c)
                /\ Envelope(c).ok
                /\ Envelope(c).object.object \notin {ExpectedVariant(call[c].op), "error"})
               => result[c] = Err("UnexpectedResponse", Envelope(c).object)

\* A get_database call answered with a page envelope returned
\* UnexpectedResponse carrying the page.
C1_Witness ==
    \E c \in Callers :
        /\ pc[c] = "done"
        /\ call[c].op = "get_database"
        /\ HasBody(c)
        /\ Envelope(c).ok
        /\ Envelope(c).object.object = "page"
        /\ result[c].kind = "UnexpectedResponse"

\* C2: in both backends, when the response body parses to the Error
\* envelope, get, post and post_json return ApiError carrying the
\* envelope's code, status and message; they neither panic nor return Ok.
C2_ErrorEnvelopeIsApiError ==
    \A c \in Callers :
        (/\ call[c].op \in TransportOps
         /\ HasBody(c)
         /\ Envelope(c).ok
         /\ Envelope(c).object.object = "error")
        => /\ pc[c] \in {"replied", "done"}
           /\ pc[c] = "done" =>
                 /\ ~result[c].ok
                 /\ result[c].kind = "ApiError"
                 /\ result[c].payload.code = Envelope(c).object.code
                 /\ result[c].payload.status = Envelope(c).object.status
                 /\ result[c].payload.message = Envelope(c).object.message

\* A post_json call of the WASI backend returned ApiError with status 404.
C2_Witness ==
    \E c \in Callers :
        /\ backend = "http_req"
        /\ pc[c] = "done"
        /\ call[c].op = "post_json"
        /\ HasBody(c)
        /\ result[c].kind = "ApiError"
        /\ result[c].payload.status = 404

\* C3: in both backends, when the request was sent and the body read from
\* the response does not parse into the tagged envelope, get, post and
\* post_json return JsonParseError; they neither panic nor return Ok or
\* another error.
C3_MalformedBodyIsJsonParseError ==
    \A c \in Callers :
        (/\ call[c].op \in TransportOps
         /\ HasBody(c)
         /\ ~Envelope(c).ok)
        => /\ pc[c] \in {"replied", "done"}
           /\ pc[c] = "done" => result[c] = Err("JsonParseError", Source("json"))

\* A get call of the general backend whose response was JSON, but no tagged
\* envelope, returned JsonParseError.
C3_Witness ==
    \E c \in Callers :
        /\ backend = "reqwest"
        /\ pc[c] = "done"
        /\ call[c].op = "get"
        /\ HasBody(c)
        /\ reply[c].bytes.doc = OtherJson
        /\ result[c].kind = "JsonParseError"

C5_AtMostOneRequest ==
    \A c \in Callers :
        /\ Len(sent[c]) <= 1
        /\ pc[c] \in {"awaiting", "replied"} => Len(sent[c]) = 1
        /\ (pc[c] = "done" /\ reply[c].kind = "send_error") =>
              result[c].kind = "RequestFailed"
        /\ (pc[c] = "done" /\ reply[c].kind = "read_error") =>
              result[c].kind = "ResponseIoError"

\* A call whose request failed to send is over, with one request sent.
C5_Witness ==
    \E c \in Callers :
        /\ pc[c] = "done"
        /\ reply[c].kind = "send_error"
        /\ result[c].kind = "RequestFailed"
        /\ Len(sent[c]) = 1

\* C6: for every URI string passed to get, post or post_json, in both
\* backends, the call ends by returning Ok or an Error value, also when the
\* URI cannot be parsed: no call aborts without a result.
C6_EveryCallReturns ==
    \A c \in Callers : pc[c] # "panicked"

\* C7: with several callers on one client, in any interleaving, no call
\* changes the token or the client, every call puts its own request (and
\* only that) on the wire, and every call's result is the one its own
\* response determines.
C7_ClientNeverChanges ==
    [][api # NoResult => (api' = api /\ new_args' = new_args)]_vars

C7_OwnRequestOwnResponse ==
    \A c \in Callers :
        /\ Len(sent[c]) <= 1
        /\ pc[c] \in {"awaiting", "replied"} => Len(sent[c]) = 1
        /\ \A i \in 1..Len(sent[c]) :
              /\ sent[c][i].url = TCallOf(c).uri
              /\ sent[c][i].body = TCallOf(c).body
        /\ (pc[c] = "done" /\ reply[c].kind # "none") =>
              result[c] = CallResult(call[c].op, TClient_finish(backend, reply[c], FALSE))

C7_IndependentCallers == []C7_OwnRequestOwnResponse /\ C7_ClientNeverChanges

\* Two callers made the same call at the same time, got different answers
\* and returned different results.
C7_Witness ==
    \E c, d \in Callers :
        /\ c # d
        /\ pc[c] = "done" /\ pc[d] = "done"
        /\ call[c] = call[d]
        /\ call[c].op = "get_page"
        /\ reply[c] # reply[d]
        /\ result[c].ok /\ result[d].kind = "ApiError"

\* C8: in the general backend NotionApi::new fails with InvalidApiToken for
\* a token that is no valid header value and with ErrorBuildingClient when
\* the client cannot be built; then there is no facade and nothing is sent.
\* In the WASI backend NotionApi::new succeeds for every token.
C8_Construction ==
    api # NoResult =>
        /\ backend = "reqwest" =>
              /\ new_args.token = "bad\ntoken" =>
                    api = Err("InvalidApiToken", Source("header_value"))
              /\ (new_args.token # "bad\ntoken" /\ ~new_args.build_ok) =>
                    api = Err("ErrorBuildingClient", Source("build"))
              /\ (new_args.token # "bad\ntoken" /\ new_args.build_ok) => api.ok
        /\ backend = "http_req" => api.ok
        /\ ~api.ok => \A c \in Callers : pc[c] = "idle" /\ sent[c] = << >>

\* The general backend refused the token that holds a line feed.
C8_Witness ==
    /\ backend = "reqwest"
    /\ new_args.token = "bad\ntoken"
    /\ api.kind = "InvalidApiToken"

\* C9: every facade operation sends the request of its endpoint under
\* https://api.notion.com/v1 (GET /databases, GET /databases/{id},
\* GET /pages/{id}, GET /blocks/{id}/children, POST /search, POST /pages,
\* POST /databases/{id}/query, the POSTs with the JSON body), and every
\* post_json request carries Content-Type application/json and a
\* Content-Length equal to the length of its body.
ApiBase == "https://api.notion.com/v1"

EndpointMethod(op) ==
    IF op \in {"search", "create_page", "query_database"} THEN "POST" ELSE "GET"

EndpointPath(op, id) ==
    CASE op = "list_databases"     -> "/databases"
      [] op = "get_database"       -> "/databases/" \o id
      [] op = "get_page"           -> "/pages/" \o id
      [] op = "get_block_children" -> "/blocks/" \o id \o "/children"
      [] op = "search"             -> "/search"
      [] op = "create_page"        -> "/pages"
      [] op = "query_database"     -> "/databases/" \o id \o "/query"

C9_EndpointRequests ==
    \A c \in Callers :
        /\ (call[c].op \in FacadeOps /\ pc[c] \in {"awaiting", "replied", "done"}) =>
              /\ Len(sent[c]) = 1
              /\ sent[c][1].method = EndpointMethod(call[c].op)
              /\ sent[c][1].url = ApiBase \o EndpointPath(call[c].op, call[c].arg)
              /\ sent[c][1].body = call[c].body
              /\ sent[c][1].body.some <=> (EndpointMethod(call[c].op) = "POST")
        /\ \A i \in 1..Len(sent[c]) :
              IF sent[c][i].body.some
              THEN /\ {"content-type", "content-length"} \subseteq DOMAIN sent[c][i].headers
                   /\ sent[c][i].headers["content-type"] = "application/json"
                   /\ sent[c][i].headers["content-length"]
                         = ToString(Len(sent[c][i].body.bytes))
              ELSE {"content-type", "content-length"} \cap DOMAIN sent[c][i].headers = {}

\* query_database sent its request, with the longer body.
C9_Witness ==
    \E c \in Callers :
        /\ call[c].op = "query_database"
        /\ pc[c] = "awaiting"
        /\ Len(sent[c]) = 1
        /\ sent[c][1].headers["content-length"] = "13"

\* The stages of a call, in the order the code runs them; each names the
\* result of a call that fails there.  The match of a facade operation is
\* that of the envelope's variant and, for list_databases, query_database
\* and get_block_children, of the kind of every item of the list.
ItemKind(op) ==
    CASE op = "list_databases" -> "database"
      [] op = "query_database" -> "page"
      [] op = "get_block_children" -> "block"

VariantMismatch(c) ==
    /\ call[c].op \in FacadeOps
    /\ Envelope(c).object.object # ExpectedVariant(call[c].op)

ItemMismatch(c) ==
    /\ call[c].op \in {"list_databases", "query_database", "get_block_children"}
    /\ Envelope(c).object.object = "list"
    /\ \E i \in 1..Len(Envelope(c).object.results) :
          Envelope(c).object.results[i].object # ItemKind(call[c].op)

FirstFailure(c) ==
    CASE reply[c].kind \in {"none", "send_error"} -> "RequestFailed"
      [] reply[c].kind = "read_error" -> "ResponseIoError"
      [] ~Envelope(c).ok -> "JsonParseError"
      [] Envelope(c).object.object = "error" -> "ApiError"
      [] VariantMismatch(c) \/ ItemMismatch(c) -> "UnexpectedResponse"
      [] OTHER -> "Ok"

TransportNeverOkWithError(c) ==
    (call[c].op \in TransportOps /\ result[c].ok) => result[c].payload.object # "error"

TransportErrorPassedOn(c) ==
    (call[c].op \in FacadeOps /\ FirstFailure(c) = "ApiError") =>
        result[c] = Err("ApiError", ErrorResponseOf(Envelope(c).object))

====
